---- MODULE Spec2Model ----
(***************************************************************************)
(* Model of the three command-line tools of floyda/agent-skills:           *)
(*   implementing-specs/scripts/update_task_status.py     (status updater) *)
(*   implementing-specs/scripts/validate_spec_artifacts.py (validator)     *)
(*   scripts/validate_skill_alignment.py              (alignment checker)  *)
(*                                                                         *)
(* A text is a sequence of characters; a character is a one-element string *)
(* of the model.  A word of a description ("w") and a status keyword       *)
(* ("pending", ...) count as one character each: no regular expression of  *)
(* the code looks inside a word.  The characters of the STATUS_EMOJI       *)
(* strings are named by their code points ("u00E2" is U+00E2): the emoji   *)
(* literals of update_task_status.py are strings of 2 to 4 code points.    *)
(***************************************************************************)
EXTENDS Integers, Sequences, FiniteSets, TLC

\* ------------------------------------------------------------------------
\* Bounds of the model
\* ------------------------------------------------------------------------
\* pieces in the description of the first task heading of a document
MaxBody == 2
\* lines in a file of a spec directory
MaxLines == 2
\* entries in a list of requirements sections
MaxSections == 2

\* ------------------------------------------------------------------------
\* Characters and strings
\* ------------------------------------------------------------------------
Whitespace == {" ", "\n"}

\* dict order of STATUS_EMOJI (update_task_status.py:24-29)
StatusKeys == <<"pending", "in_progress", "completed", "blocked">>

STATUS_EMOJI ==
  [pending     |-> <<"u00E2", "u00B3">>,
   in_progress |-> <<"u00F0", "u0178", "u201D", "u201E">>,
   completed   |-> <<"u00E2", "u0153", "u2026">>,
   blocked     |-> <<"u00F0", "u0178", "u0161", "u00AB">>]

ValidStatus == {StatusKeys[i] : i \in 1..Len(StatusKeys)}

\* the character class [...] that closes the pattern of line 57
EmojiClass ==
  UNION {{STATUS_EMOJI[k][i] : i \in 1..Len(STATUS_EMOJI[k])} : k \in ValidStatus}

Digits == {"0", "1", "2"}

Max(S) == CHOOSE x \in S : \A y \in S : y <= x

RECURSIVE SkipWhile(_, _, _)
\* the end of the longest run of characters of S that starts at p
SkipWhile(d, p, S) ==
  IF p <= Len(d) /\ d[p] \in S THEN SkipWhile(d, p + 1, S) ELSE p

RECURSIVE SkipTo(_, _, _)
\* the first position >= p of a character of S, Len(d) + 1 when none
SkipTo(d, p, S) ==
  IF p <= Len(d) /\ d[p] \notin S THEN SkipTo(d, p + 1, S) ELSE p

LitAt(d, p, lit) ==
  /\ p + Len(lit) - 1 <= Len(d)
  /\ \A i \in 1..Len(lit) : d[p + i - 1] = lit[i]

\* "^" and "$" under re.MULTILINE; position p is the gap before d[p]
AtBol(d, p) == p = 1 \/ d[p - 1] = "\n"
AtEol(d, p) == p = Len(d) + 1 \/ d[p] = "\n"

RECURSIVE Find(_, _, _)
\* str.find: the first position >= p where lit occurs in d, 0 when none
Find(d, lit, p) ==
  IF p + Len(lit) - 1 > Len(d) THEN 0
  ELSE IF LitAt(d, p, lit) THEN p
  ELSE Find(d, lit, p + 1)

Contains(d, lit) == Find(d, lit, 1) # 0

RECURSIVE Remove(_, _)
\* str.replace(lit, ""): occurrences are removed left to right, not rescanned
Remove(d, lit) ==
  LET i == Find(d, lit, 1)
  IN IF i = 0 THEN d
     ELSE SubSeq(d, 1, i - 1) \o Remove(SubSeq(d, i + Len(lit), Len(d)), lit)

RECURSIVE LStrip(_)
LStrip(d) == IF d # <<>> /\ Head(d) \in Whitespace THEN LStrip(Tail(d)) ELSE d

RECURSIVE RStrip(_)
RStrip(d) ==
  IF d # <<>> /\ d[Len(d)] \in Whitespace
  THEN RStrip(SubSeq(d, 1, Len(d) - 1)) ELSE d

\* str.strip()
Strip(d) == RStrip(LStrip(d))

\* ------------------------------------------------------------------------
\* update_task_status.py: the pattern of line 57
\*   ^(###\s+{task_id}[\s:]+)(.+?)(\s*\([^)]+\)|\s*[emoji])?\s*$
\* matched as a backtracking matcher does: the first success in the order
\* greedy [\s:]+ (longest first), lazy .+? (shortest first), group 3 first
\* alternative, second alternative, absent.
\* ------------------------------------------------------------------------
NoMatch == [ok |-> FALSE, pend |-> 0, dend |-> 0, mend |-> 0]

\* \s*$ from e: the end of the match, 0 when it fails
TailEnd(d, e) ==
  LET r == SkipWhile(d, e, Whitespace)
      ends == {k \in e..r : AtEol(d, k)}
  IN IF ends = {} THEN 0 ELSE Max(ends)

\* (\s*\([^)]+\)|\s*[emoji])?\s*$ from e: the end of the match, 0 when it fails
AfterDescription(d, e) ==
  LET s == SkipWhile(d, e, Whitespace)
      t == SkipTo(d, s + 1, {")"})
      paren == IF /\ s <= Len(d) /\ d[s] = "("
                  /\ t > s + 1 /\ t <= Len(d) /\ d[t] = ")"
               THEN TailEnd(d, t + 1) ELSE 0
      emo == IF s <= Len(d) /\ d[s] \in EmojiClass
             THEN TailEnd(d, s + 1) ELSE 0
  IN IF paren # 0 THEN paren
     ELSE IF emo # 0 THEN emo
     ELSE TailEnd(d, e)

RECURSIVE LazyDescription(_, _, _)
\* (.+?) from b, tried with its end at e, e + 1, ...
LazyDescription(d, b, e) ==
  IF e - 1 > Len(d) \/ d[e - 1] = "\n" THEN NoMatch
  ELSE LET m == AfterDescription(d, e)
       IN IF m # 0 THEN [ok |-> TRUE, pend |-> b, dend |-> e, mend |-> m]
          ELSE LazyDescription(d, b, e + 1)

RECURSIVE PrefixTry(_, _, _)
\* [\s:]+ ending at r, r - 1, ..., lo
PrefixTry(d, lo, r) ==
  IF r < lo THEN NoMatch
  ELSE LET m == LazyDescription(d, r, r + 1)
       IN IF m.ok THEN m ELSE PrefixTry(d, lo, r - 1)

MatchAt(d, p, task_id) ==
  IF ~AtBol(d, p) \/ ~LitAt(d, p, <<"#", "#", "#">>) THEN NoMatch
  ELSE LET q1 == SkipWhile(d, p + 3, Whitespace)
       IN IF q1 = p + 3 \/ ~LitAt(d, q1, task_id) THEN NoMatch
          ELSE LET q2 == q1 + Len(task_id)
               IN PrefixTry(d, q2 + 1, SkipWhile(d, q2, Whitespace \cup {":"}))

RECURSIVE StripEmoji(_, _)
\* the loop of lines 64-65, from the i-th value of STATUS_EMOJI on
StripEmoji(description, i) ==
  IF i > Len(StatusKeys) THEN description
  ELSE StripEmoji(Strip(Remove(description, STATUS_EMOJI[StatusKeys[i]])), i + 1)

\* the replacement text of the match m that starts at p
replace_status(d, p, m, new_status) ==
  LET prefix == SubSeq(d, p, m.pend - 1)
      description == StripEmoji(Strip(SubSeq(d, m.pend, m.dend - 1)), 1)
  IN prefix \o STATUS_EMOJI[new_status] \o <<" ">> \o description

\* the start of the line after the one p is in
NextLine(d, p) ==
  LET e == SkipTo(d, p, {"\n"})
  IN IF e > Len(d) THEN e ELSE e + 1

RECURSIVE subn(_, _, _, _)
\* re.subn(pattern, replace_status, content, flags=re.MULTILINE) from p on,
\* p at the start of a line or at the end of a match: text that no match
\* covers is copied
subn(d, p, task_id, new_status) ==
  IF p > Len(d) THEN [out |-> <<>>, count |-> 0]
  ELSE LET m == MatchAt(d, p, task_id)
       IN IF m.ok
          THEN LET rest == subn(d, m.mend, task_id, new_status)
               IN [out |-> replace_status(d, p, m, new_status) \o rest.out,
                   count |-> rest.count + 1]
          ELSE LET q == NextLine(d, p)
                   rest == subn(d, q, task_id, new_status)
               IN [out |-> SubSeq(d, p, q - 1) \o rest.out, count |-> rest.count]

\* ------------------------------------------------------------------------
\* list_tasks: the pattern of line 93, ^###\s+(T\d{3})[:\s]+(.+?)$
\* ------------------------------------------------------------------------
NoListMatch == [ok |-> FALSE, id |-> <<>>, pend |-> 0, dend |-> 0]

RECURSIVE ListPrefixEnd(_, _, _)
\* [:\s]+ ending at r, r - 1, ..., lo: (.+?)$ needs one character of the line
ListPrefixEnd(d, lo, r) ==
  IF r < lo THEN 0
  ELSE IF r <= Len(d) /\ d[r] # "\n" THEN r
  ELSE ListPrefixEnd(d, lo, r - 1)

\* ^###\s+T\d{3} at p: the position of the "T", 0 when it does not match
TaskHeadingAt(d, p) ==
  IF ~AtBol(d, p) \/ ~LitAt(d, p, <<"#", "#", "#">>) THEN 0
  ELSE LET q1 == SkipWhile(d, p + 3, Whitespace)
       IN IF \/ q1 = p + 3
             \/ q1 + 3 > Len(d)
             \/ d[q1] # "T"
             \/ \E i \in 1..3 : d[q1 + i] \notin Digits
          THEN 0 ELSE q1

ListMatchAt(d, p) ==
  LET q1 == TaskHeadingAt(d, p)
  IN IF q1 = 0 THEN NoListMatch
          ELSE LET q2 == q1 + 4
                   b == ListPrefixEnd(d, q2 + 1,
                                      SkipWhile(d, q2, Whitespace \cup {":"}))
               IN IF b = 0 THEN NoListMatch
                  ELSE [ok |-> TRUE, id |-> SubSeq(d, q1, q2 - 1), pend |-> b,
                        dend |-> SkipTo(d, b, {"\n"})]

RECURSIVE DetectStatus(_, _)
\* the loop of lines 103-107, from the i-th key of STATUS_EMOJI on
DetectStatus(description, i) ==
  IF i > Len(StatusKeys) THEN "pending"
  ELSE IF \/ Contains(description, STATUS_EMOJI[StatusKeys[i]])
          \/ Contains(description, <<"(", StatusKeys[i], ")">>)
       THEN StatusKeys[i]
       ELSE DetectStatus(description, i + 1)

RECURSIVE ListFrom(_, _)
\* re.finditer from p on: one <<task id, status>> per printed line
ListFrom(d, p) ==
  IF p > Len(d) THEN <<>>
  ELSE LET m == ListMatchAt(d, p)
       IN IF m.ok
          THEN <<[id |-> m.id,
                  status |-> DetectStatus(Strip(SubSeq(d, m.pend, m.dend - 1)), 1)]>>
                 \o ListFrom(d, m.dend)
          ELSE ListFrom(d, NextLine(d, p))

\* the lines list_tasks prints for an existing file
list_tasks(d) == ListFrom(d, 1)

\* ------------------------------------------------------------------------
\* The documents and the command lines the updater is run on
\* ------------------------------------------------------------------------
T001 == <<"T", "0", "0", "1">>
T002 == <<"T", "0", "0", "2">>

TaskLine(id, sep, body) == <<"#", "#", "#", " ">> \o id \o sep \o body

\* the pieces a description is made of: a word, a blank, a "(status)" marker,
\* a parenthesised remark, an emoji marker
BodyAtoms ==
  {<<"w">>, <<" ">>, <<"(", "pending", ")">>, <<"(", "w", ")">>,
   STATUS_EMOJI["pending"]}

RECURSIVE Bodies(_)
Bodies(n) ==
  IF n = 0 THEN {<<>>}
  ELSE LET B == Bodies(n - 1) IN B \cup {b \o a : b \in B, a \in BodyAtoms}

Newlines(k) == [i \in 1..k |-> "\n"]

\* what follows the first heading after one line break or a blank line
Rests ==
  {<<>>,
   TaskLine(T002, <<":", " ">>, <<"w", " ", "(", "completed", ")">>),
   TaskLine(T001, <<" ">>, <<"w">>)}

Tails == {<<>>} \cup {Newlines(k) \o r : k \in {1, 2}, r \in Rests}

Documents ==
  {TaskLine(T001, <<":", " ">>, body) \o tail :
     body \in Bodies(MaxBody), tail \in Tails}

\* ------------------------------------------------------------------------
\* update_task_status.py: the command
\* ------------------------------------------------------------------------
VARIABLES
  tasks_file, \* the tasks file: [exists, text]
  prev,       \* the tasks file before the last run
  argv,       \* sys.argv of the last run, <<>> before the first
  exitCode,   \* exit code of the last run, -1 before the first
  wrote,      \* the last run called tasks_file.write_text
  didRead,    \* the last run called tasks_file.read_text
  spec_dir,   \* validate_spec_artifacts.py: the directory it is run on
  errors,     \* validate_spec_artifacts.py: the errors of the last run
  skills,     \* validate_skill_alignment.py: the skills directory
  issues      \* validate_skill_alignment.py: the issues of the last run

updaterVars == <<tasks_file, prev, argv, exitCode, wrote, didRead>>
validatorVars == <<spec_dir, errors>>
alignmentVars == <<skills, issues>>
vars == <<updaterVars, validatorVars, alignmentVars>>

Prog == "update_task_status.py"
TasksPath == "tasks.md"

\* the <task_id> <status> pairs of the command lines
TaskIdArgs == {T001, <<"t", "0", "0", "2">>}
StatusArgs == {"pending", "in_progress", "completed", "BLOCKED", "done"}
UpdateArgs ==
  (TaskIdArgs \X StatusArgs) \cup {<<(<<"T", "1">>), "completed">>}

\* str.upper() on a task id, str.lower() on a status word
upper(s) == [i \in 1..Len(s) |-> IF s[i] = "t" THEN "T" ELSE s[i]]
lower(w) == IF w = "BLOCKED" THEN "blocked" ELSE w

\* re.match(r"^T\d{3}$", task_id): "$" also matches before a final newline
IsTaskId(s) ==
  /\ Len(s) \in {4, 5}
  /\ s[1] = "T"
  /\ \A i \in 2..4 : s[i] \in Digits
  /\ Len(s) = 5 => s[5] = "\n"

\* update_task_status without the "count == 0" return of lines 72-74
update_task_status_any_count(file, task_id, new_status) ==
  IF ~file.exists
  THEN [success |-> FALSE, file |-> file, wrote |-> FALSE, didRead |-> FALSE]
  ELSE IF new_status \notin DOMAIN STATUS_EMOJI
  THEN [success |-> FALSE, file |-> file, wrote |-> FALSE, didRead |-> FALSE]
  ELSE [success |-> TRUE,
        file |-> [exists |-> TRUE,
                  text |-> subn(file.text, 1, task_id, new_status).out],
        wrote |-> TRUE, didRead |-> TRUE]

\* update_task_status with the status test of lines 47-49 after line 51
update_task_status_reads_first(file, task_id, new_status) ==
  IF ~file.exists
  THEN [success |-> FALSE, file |-> file, wrote |-> FALSE, didRead |-> FALSE]
  ELSE IF new_status \notin DOMAIN STATUS_EMOJI
  THEN [success |-> FALSE, file |-> file, wrote |-> FALSE, didRead |-> TRUE]
  ELSE LET r == subn(file.text, 1, task_id, new_status)
       IN IF r.count = 0
          THEN [success |-> FALSE, file |-> file, wrote |-> FALSE,
                didRead |-> TRUE]
          ELSE [success |-> TRUE, file |-> [exists |-> TRUE, text |-> r.out],
                wrote |-> TRUE, didRead |-> TRUE]

update_task_status(file, task_id, new_status) ==
  IF ~file.exists
  THEN [success |-> FALSE, file |-> file, wrote |-> FALSE, didRead |-> FALSE]
  ELSE IF new_status \notin DOMAIN STATUS_EMOJI
  THEN [success |-> FALSE, file |-> file, wrote |-> FALSE, didRead |-> FALSE]
  ELSE LET r == subn(file.text, 1, task_id, new_status)
       IN IF r.count = 0
          THEN [success |-> FALSE, file |-> file, wrote |-> FALSE,
                didRead |-> TRUE]
          ELSE [success |-> TRUE, file |-> [exists |-> TRUE, text |-> r.out],
                wrote |-> TRUE, didRead |-> TRUE]

\* one run of main() with the command line a; in list mode (two arguments)
\* list_tasks returns early on a missing file and main exits 0 either way
main(a) ==
  /\ UNCHANGED <<validatorVars, alignmentVars>>
  /\ argv' = a
  /\ prev' = tasks_file
  /\ IF Len(a) < 2
     THEN /\ exitCode' = 1
          /\ tasks_file' = tasks_file
          /\ wrote' = FALSE
          /\ didRead' = FALSE
     ELSE IF Len(a) = 2
     THEN /\ exitCode' = 0
          /\ tasks_file' = tasks_file
          /\ wrote' = FALSE
          /\ didRead' = tasks_file.exists
     ELSE IF Len(a) # 4
     THEN /\ exitCode' = 1
          /\ tasks_file' = tasks_file
          /\ wrote' = FALSE
          /\ didRead' = FALSE
     ELSE IF ~IsTaskId(upper(a[3]))
     THEN /\ exitCode' = 1
          /\ tasks_file' = tasks_file
          /\ wrote' = FALSE
          /\ didRead' = FALSE
     ELSE \E r \in {update_task_status(tasks_file, upper(a[3]), lower(a[4]))} :
             /\ exitCode' = (IF r.success THEN 0 ELSE 1)
             /\ tasks_file' = r.file
             /\ wrote' = r.wrote
             /\ didRead' = r.didRead

Usage == main(<<Prog>>)
ListMode == main(<<Prog, TasksPath>>)
WrongArity ==
  \E a \in {<<Prog, TasksPath, T001>>,
            <<Prog, TasksPath, T001, "completed", "extra">>} : main(a)
UpdateMode ==
  \E a \in UpdateArgs : main(<<Prog, TasksPath, a[1], a[2]>>)

NoFile == [exists |-> FALSE, text |-> <<>>]

\* ------------------------------------------------------------------------
\* validate_spec_artifacts.py
\* ------------------------------------------------------------------------
REQUIRED_FILES == <<"requirements.md", "plan.md", "tasks.md">>
FileNames == {REQUIRED_FILES[i] : i \in 1..Len(REQUIRED_FILES)}

Overview == <<"#", "#", " ", "Overview">>
Requirements == <<"#", "#", " ", "Requirements">>
ImplementationPhases == <<"#", "#", " ", "Implementation", " ", "Phases">>
TasksSection == <<"#", "#", " ", "Tasks">>

REQUIREMENTS_SECTIONS == <<Overview, Requirements>>
PLAN_SECTIONS == <<ImplementationPhases>>
TASKS_SECTIONS == <<TasksSection>>

\* an error message: the rule it reports, the file and the sections it names
Message(rule, file, sections) ==
  [rule |-> rule, file |-> file, sections |-> sections]
NoError == Message("none", "", <<>>)

\* the ValidationError validate_file_exists raises, NoError when it returns
validate_file_exists(dir, filename) ==
  IF dir.files[filename].kind = "missing"
  THEN Message("missing_file", filename, <<>>)
  ELSE IF dir.files[filename].kind # "file"
  THEN Message("not_a_file", filename, <<>>)
  ELSE NoError

\* validate_file_sections with a loop that stops after the first section
validate_file_sections_first_only(dir, filename, required_sections) ==
  IF ~Contains(dir.files[filename].text, required_sections[1])
  THEN Message("missing_sections", filename, <<required_sections[1]>>)
  ELSE NoError

\* the ValidationError validate_file_sections raises, NoError when it returns
validate_file_sections(dir, filename, required_sections) ==
  LET content == dir.files[filename].text
      missing_sections ==
        SelectSeq(required_sections, LAMBDA section : ~Contains(content, section))
  IN IF missing_sections # <<>>
     THEN Message("missing_sections", filename, missing_sections)
     ELSE NoError

RECURSIVE SearchTaskHeading(_, _)
\* re.search(r"^###\s+T\d{3}", content, re.MULTILINE) from the line at p on
SearchTaskHeading(d, p) ==
  IF p > Len(d) THEN FALSE
  ELSE TaskHeadingAt(d, p) # 0 \/ SearchTaskHeading(d, NextLine(d, p))

\* the ValidationError validate_tasks_format raises, NoError when it returns
validate_tasks_format(dir) ==
  IF ~SearchTaskHeading(dir.files["tasks.md"].text, 1)
  THEN Message("no_task_heading", "tasks.md", <<>>)
  ELSE NoError

RECURSIVE FirstRaised(_, _)
\* the try block: the first ValidationError ends it
FirstRaised(checks, i) ==
  IF i > Len(checks) THEN <<>>
  ELSE IF checks[i] # NoError THEN <<checks[i]>>
  ELSE FirstRaised(checks, i + 1)

\* the list of errors validate_spec_directory returns; success is errors = <<>>
validate_spec_directory(dir) ==
  IF dir.kind = "missing" THEN <<Message("no_directory", "", <<>>)>>
  ELSE IF dir.kind # "dir" THEN <<Message("not_a_directory", "", <<>>)>>
  ELSE FirstRaised(
         <<validate_file_exists(dir, "requirements.md"),
           validate_file_exists(dir, "plan.md"),
           validate_file_exists(dir, "tasks.md"),
           validate_file_sections(dir, "requirements.md", REQUIREMENTS_SECTIONS),
           validate_file_sections(dir, "plan.md", PLAN_SECTIONS),
           validate_file_sections(dir, "tasks.md", TASKS_SECTIONS),
           validate_tasks_format(dir)>>, 1)

\* the texts of the three files: up to MaxLines lines of these
RequirementsLines ==
  {Overview, Requirements, <<"#", "#", "#", " ", "Requirements">>}
PlanLines == {ImplementationPhases, <<"#", " ", "Implementation", " ", "Phases">>}
TasksLines ==
  {TasksSection, TaskLine(T001, <<":", " ">>, <<"w">>),
   <<"#", "#", "#", " ", " ", "T", "0", "0", "2">>}

RECURSIVE Texts(_, _)
Texts(lines, n) ==
  IF n = 0 THEN {<<>>}
  ELSE LET S == Texts(lines, n - 1)
       IN S \cup {t \o l \o <<"\n">> : t \in S, l \in lines}

Entries(lines) ==
  {[kind |-> "missing", text |-> <<>>], [kind |-> "dir", text |-> <<>>]}
    \cup {[kind |-> "file", text |-> t] : t \in Texts(lines, MaxLines)}

NoEntry == [kind |-> "missing", text |-> <<>>]

Directories ==
  {[kind |-> k, files |-> [f \in FileNames |-> NoEntry]] :
     k \in {"missing", "file"}}
    \cup
  {[kind |-> "dir",
    files |-> [f \in FileNames |->
                 IF f = "requirements.md" THEN r
                 ELSE IF f = "plan.md" THEN p ELSE t]] :
     r \in Entries(RequirementsLines), p \in Entries(PlanLines),
     t \in Entries(TasksLines)}

\* main() of validate_spec_artifacts.py on <spec_directory>
ValidatorMain ==
  /\ argv' = <<"validate_spec_artifacts.py", "spec_dir">>
  /\ errors' = validate_spec_directory(spec_dir)
  /\ exitCode' = (IF errors' = <<>> THEN 0 ELSE 1)
  /\ UNCHANGED <<spec_dir, tasks_file, prev, wrote, didRead, alignmentVars>>

\* main() of validate_spec_artifacts.py with a wrong number of arguments
ValidatorUsage ==
  /\ \E a \in {<<"validate_spec_artifacts.py">>,
               <<"validate_spec_artifacts.py", "spec_dir", "extra">>} : argv' = a
  /\ exitCode' = 1
  /\ UNCHANGED <<spec_dir, errors, tasks_file, prev, wrote, didRead, alignmentVars>>

\* ------------------------------------------------------------------------
\* validate_skill_alignment.py
\* ------------------------------------------------------------------------
Issue(severity, component, kind, sections) ==
  [severity |-> severity, component |-> component, kind |-> kind,
   sections |-> sections]

ToSet(list) == {list[i] : i \in 1..Len(list)}

\* the comparison with extra sections reported as errors too
CompareSections_extra_as_error(component, expected, promised) ==
  LET missing == ToSet(expected) \ ToSet(promised)
      extra == ToSet(promised) \ ToSet(expected)
  IN (IF missing # {}
      THEN <<Issue("error", component, "missing_sections", missing)>>
      ELSE <<>>)
     \o (IF extra # {}
         THEN <<Issue("error", component, "extra_sections", extra)>>
         ELSE <<>>)

\* lines 175-193 and 196-214: the comparison of one category's section lists
CompareSections(component, expected, promised) ==
  LET missing == ToSet(expected) \ ToSet(promised)
      extra == ToSet(promised) \ ToSet(expected)
  IN IF ToSet(expected) # ToSet(promised)
     THEN (IF missing # {}
           THEN <<Issue("error", component, "missing_sections", missing)>>
           ELSE <<>>)
          \o (IF extra # {}
              THEN <<Issue("warning", component, "extra_sections", extra)>>
              ELSE <<>>)
     ELSE <<>>

\* lines 217-236: the first example task line against the expected pattern
CompareTaskFormat(expectations, promises, example_matches) ==
  IF expectations.task_pattern # "None"
  THEN IF promises.task_format_examples # <<>>
       THEN IF ~example_matches
            THEN <<Issue("error", "tasks", "task_format_mismatch", {})>>
            ELSE <<>>
       ELSE <<Issue("warning", "tasks", "no_task_examples", {})>>
  ELSE <<>>

\* lines 239-246: the expected section pattern within the promised marker
CompareTaskSections(expectations, promises) ==
  IF expectations.tasks_sections # <<>>
  THEN IF \/ promises.tasks_sections = <<>>
          \/ ~Contains(promises.tasks_sections[1], expectations.tasks_sections[1])
       THEN <<Issue("error", "tasks", "no_section_pattern", {})>>
       ELSE <<>>
  ELSE <<>>

validate_alignment(dir) ==
  IF ~dir.validator_exists
  THEN <<Issue("error", "general", "validator_not_found", {})>>
  ELSE IF ~dir.template_exists
  THEN <<Issue("error", "general", "template_not_found", {})>>
  ELSE CompareSections("requirements", dir.expectations.requirements_sections,
                       dir.promises.requirements_sections)
       \o CompareSections("plan", dir.expectations.plan_sections,
                          dir.promises.plan_sections)
       \o CompareTaskFormat(dir.expectations, dir.promises, dir.example_matches)
       \o CompareTaskSections(dir.expectations, dir.promises)

\* main() of validate_skill_alignment.py: 1 when an error is among the issues
AlignmentExit(found) ==
  IF found = <<>> THEN 0
  ELSE IF \E i \in 1..Len(found) : found[i].severity = "error" THEN 1
  ELSE 0

RECURSIVE Lists(_, _)
Lists(S, n) ==
  IF n = 0 THEN {<<>>}
  ELSE LET L == Lists(S, n - 1) IN L \cup {Append(l, x) : l \in L, x \in S}

Phase == <<"#", "#", " ", "Phase">>

\* what extract_validation_expectations can return
Expectations ==
  [requirements_sections : Lists({"## Overview", "## Requirements"}, MaxSections),
   plan_sections : {<<>>, <<"## Implementation Phases">>, <<"## Risks">>},
   tasks_sections : {<<>>, <<TasksSection>>, <<(<<"Phase">>)>>},
   task_pattern : {"None", "^###\\s+T\\d{3}"}]

\* what extract_template_promises can return
Promises ==
  [requirements_sections : Lists({"## Overview", "## Requirements"}, MaxSections),
   plan_sections : {<<>>, <<"## Implementation Phases">>, <<"## Risks">>},
   tasks_sections : {<<>>, <<Phase>>},
   task_format_examples : {<<>>, <<"T001: w">>}]

NoExpectations ==
  [requirements_sections |-> <<>>, plan_sections |-> <<>>,
   tasks_sections |-> <<>>, task_pattern |-> "None"]
NoPromises ==
  [requirements_sections |-> <<>>, plan_sections |-> <<>>,
   tasks_sections |-> <<>>, task_format_examples |-> <<>>]

SkillsDirs ==
  {[validator_exists |-> v, template_exists |-> t, expectations |-> NoExpectations,
    promises |-> NoPromises, example_matches |-> FALSE] :
     v \in BOOLEAN, t \in {FALSE}}
    \cup
  {[validator_exists |-> TRUE, template_exists |-> TRUE, expectations |-> e,
    promises |-> p, example_matches |-> m] :
     e \in Expectations, p \in Promises, m \in BOOLEAN}

\* main() of validate_skill_alignment.py
AlignmentMain ==
  /\ argv' = <<"validate_skill_alignment.py">>
  /\ issues' = validate_alignment(skills)
  /\ exitCode' = AlignmentExit(issues')
  /\ UNCHANGED <<skills, tasks_file, prev, wrote, didRead, validatorVars>>

\* ------------------------------------------------------------------------
\* Specifications: one per tool
\* ------------------------------------------------------------------------
NoDirectory ==
  [kind |-> "missing",
   files |-> [f \in FileNames |-> NoEntry]]
NoSkills ==
  [validator_exists |-> FALSE, template_exists |-> FALSE,
   expectations |-> NoExpectations, promises |-> NoPromises,
   example_matches |-> FALSE]

Idle ==
  /\ argv = <<>>
  /\ exitCode = -1
  /\ wrote = FALSE
  /\ didRead = FALSE
  /\ errors = <<>>
  /\ issues = <<>>

UpdaterInit ==
  /\ tasks_file \in {[exists |-> TRUE, text |-> d] : d \in Documents} \cup {NoFile}
  /\ prev = tasks_file
  /\ spec_dir = NoDirectory
  /\ skills = NoSkills
  /\ Idle

UpdaterNext == Usage \/ ListMode \/ WrongArity \/ UpdateMode

UpdaterSpec == UpdaterInit /\ [][UpdaterNext]_vars

ValidatorInit ==
  /\ spec_dir \in Directories
  /\ tasks_file = NoFile
  /\ prev = NoFile
  /\ skills = NoSkills
  /\ Idle

ValidatorNext == ValidatorMain \/ ValidatorUsage

ValidatorSpec == ValidatorInit /\ [][ValidatorNext]_vars

AlignmentInit ==
  /\ skills \in SkillsDirs
  /\ tasks_file = NoFile
  /\ prev = NoFile
  /\ spec_dir = NoDirectory
  /\ Idle

AlignmentNext == AlignmentMain

AlignmentSpec == AlignmentInit /\ [][AlignmentNext]_vars

\* ------------------------------------------------------------------------
\* Properties of the status updater (UpdaterSpec)
\* ------------------------------------------------------------------------
\* the last run was an update with the right number of arguments
UpdateRan == Len(argv) = 4
RunId == upper(argv[3])
RunStatus == lower(argv[4])
UpdateSucceeded == UpdateRan /\ exitCode = 0

\* the line that starts at p
LineAt(d, p) == SubSeq(d, p, SkipTo(d, p, {"\n"}) - 1)

\* d has, at p, a line "### <id>", a separator and a description with a word
HeadingAt(d, p, id) ==
  /\ AtBol(d, p)
  /\ LitAt(d, p, <<"#", "#", "#", " ">> \o id)
  /\ LET b == SkipWhile(d, p + 4 + Len(id), {" ", ":"})
     IN b > p + 4 + Len(id) /\ b <= Len(d) /\ d[b] # "\n"
  /\ Contains(LineAt(d, p), <<"w">>)

Headings(d, id) == {p \in 1..Len(d) : HeadingAt(d, p, id)}

\* d mentions id after "###" and white space at the start of a line
HasHeading(d, id) ==
  \E p \in 1..Len(d) :
    /\ AtBol(d, p)
    /\ LitAt(d, p, <<"#", "#", "#">>)
    /\ \E q \in (p + 4)..Len(d) :
         /\ \A k \in (p + 3)..(q - 1) : d[k] \in Whitespace
         /\ LitAt(d, q, id)

\* the statuses list_tasks reports for id, in document order
StatusesOf(listing, id) ==
  LET rows == SelectSeq(listing, LAMBDA row : row.id = id)
  IN [i \in 1..Len(rows) |-> rows[i].status]

Statuses == {"pending", "in_progress", "completed", "blocked"}

\* C1: after a successful update of a task that has a heading line,
\* list_tasks reports exactly the new status for that task and, for every
\* other task, the statuses it reported before the update.
C1_ListReportsUpdate ==
  (UpdateSucceeded /\ Headings(prev.text, RunId) # {}) =>
    LET before == list_tasks(prev.text)
        after == list_tasks(tasks_file.text)
    IN /\ StatusesOf(after, RunId) # <<>>
       /\ \A i \in 1..Len(StatusesOf(after, RunId)) :
            StatusesOf(after, RunId)[i] = RunStatus
       /\ \A other \in {T001, T002} \ {RunId} :
            StatusesOf(after, other) = StatusesOf(before, other)

RECURSIVE RemoveAll(_, _)
\* d without the occurrences of the strings of the list lits
RemoveAll(d, lits) ==
  IF lits = <<>> THEN d ELSE RemoveAll(Remove(d, Head(lits)), Tail(lits))

\* every status marker: the four emoji and the four "(status)" notations
StatusMarkers ==
  [i \in 1..4 |-> STATUS_EMOJI[StatusKeys[i]]]
    \o [i \in 1..4 |-> <<"(", StatusKeys[i], ")">>]

\* d without its status markers and without blanks
Unmarked(d) == RemoveAll(d, StatusMarkers \o << <<" ">> >>)

\* C2: a successful update that matches exactly once changes only the
\* status-bearing portion of the heading: but for status markers (and the
\* blank that goes with one) the document is the same before and after,
\* remarks in parentheses and line breaks included.
C2_OnlyMarkerChanges ==
  (/\ UpdateSucceeded
   /\ Cardinality(Headings(prev.text, RunId)) = 1
   /\ subn(prev.text, 1, RunId, RunStatus).count = 1) =>
    Unmarked(tasks_file.text) = Unmarked(prev.text)

\* C3: updating an identifier with no matching heading leaves the document
\* as it was, writes nothing, and the process exits with code 1.
C3_NotFoundLeavesDocument ==
  (/\ UpdateRan /\ IsTaskId(RunId) /\ RunStatus \in Statuses /\ prev.exists
   /\ \/ ~HasHeading(prev.text, RunId)
      \/ \A p \in 1..Len(prev.text) : ~MatchAt(prev.text, p, RunId).ok) =>
    /\ tasks_file = prev
    /\ ~wrote
    /\ exitCode = 1

\* C3 witness: an update of T002 on a document whose only task is T001
C3_Witness ==
  /\ UpdateRan /\ RunId = T002 /\ RunStatus = "completed"
  /\ prev.exists /\ Headings(prev.text, T001) # {}
  /\ ~HasHeading(prev.text, T002)
  /\ exitCode = 1 /\ tasks_file = prev

\* C4: a status outside {pending, in_progress, completed, blocked} (after
\* lowercasing) fails the update before the file is read or written.
C4_InvalidStatusNoAccess ==
  (UpdateRan /\ RunStatus \notin Statuses) =>
    /\ ~didRead
    /\ ~wrote
    /\ tasks_file = prev
    /\ exitCode = 1

\* C4 witness: status "done" for a task the document has
C4_Witness ==
  /\ UpdateRan /\ argv[4] = "done" /\ RunId = T001
  /\ prev.exists /\ Headings(prev.text, T001) # {}
  /\ exitCode = 1 /\ ~didRead /\ ~wrote

\* C5: applying the same update a second time leaves the document as the
\* first application made it (stated for documents that had no emoji yet).
C5_Idempotent ==
  (/\ UpdateSucceeded
   /\ Headings(prev.text, RunId) # {}
   /\ \A i \in 1..Len(prev.text) : prev.text[i] \notin EmojiClass) =>
    update_task_status(tasks_file, RunId, RunStatus).file = tasks_file

\* the cases the command is to fail in
Failure ==
  \/ Len(argv) \notin {2, 4}
  \/ ~tasks_file.exists
  \/ /\ Len(argv) = 4
     /\ \/ ~(Len(RunId) = 4 /\ RunId[1] = "T" /\ \A i \in 2..4 : RunId[i] \in Digits)
        \/ RunStatus \notin Statuses
        \/ ~HasHeading(prev.text, RunId)

\* C9: the command exits 0 only on success and 1 on every failure (wrong
\* argument count, invalid task id, invalid status, task not found, tasks
\* file not found in list and in update mode), and a failing run writes
\* nothing.
C9_ExitCodes ==
  (argv # <<>>) =>
    /\ Failure => (exitCode = 1 /\ ~wrote /\ tasks_file = prev)
    /\ exitCode = 0 => ~Failure

\* the characters of status emoji in a line
EmojiChars(line) == {i \in 1..Len(line) : line[i] \in EmojiClass}

\* the occurrences of status emoji in a line
EmojiAt(line) ==
  {<<i, k>> \in (1..Len(line)) \X Statuses : LitAt(line, i, STATUS_EMOJI[k])}

HasStatusNotation(line) ==
  \E k \in Statuses : Contains(line, <<"(", k, ")">>)

\* a heading with no marker, with one emoji marker, or with a trailing
\* "(status)" marker
WellMarked(line) ==
  \/ EmojiChars(line) = {} /\ ~HasStatusNotation(line)
  \/ /\ ~HasStatusNotation(line)
     /\ \E o \in EmojiAt(line) :
          EmojiChars(line) = o[1]..(o[1] + Len(STATUS_EMOJI[o[2]]) - 1)
  \/ /\ EmojiChars(line) = {}
     /\ \E k \in Statuses :
          /\ LitAt(line, Len(line) - 2, <<"(", k, ")">>)
          /\ ~HasStatusNotation(SubSeq(line, 1, Len(line) - 3))

\* C10: markers never accumulate: a successful update of a heading that had
\* no marker, one emoji marker or a trailing "(status)" marker leaves on the
\* heading line exactly one status emoji, that of the new status, and
\* nothing of an earlier marker.
C10_OneMarker ==
  (/\ UpdateSucceeded
   /\ Cardinality(Headings(prev.text, RunId)) = 1
   /\ \A p \in Headings(prev.text, RunId) : WellMarked(LineAt(prev.text, p))) =>
    /\ Cardinality(Headings(tasks_file.text, RunId)) = 1
    /\ \A p \in Headings(tasks_file.text, RunId) :
         LET line == LineAt(tasks_file.text, p)
         IN /\ Cardinality(EmojiAt(line)) = 1
            /\ \A o \in EmojiAt(line) : o[2] = RunStatus
            /\ Cardinality(EmojiChars(line)) = Len(STATUS_EMOJI[RunStatus])
            /\ ~HasStatusNotation(line)

\* ------------------------------------------------------------------------
\* Properties of the artifact validator (ValidatorSpec)
\* ------------------------------------------------------------------------
ValidatorRan == Len(argv) = 2 /\ argv[1] = "validate_spec_artifacts.py"

IsFile(dir, f) == dir.files[f].kind = "file"

RequiredSections(f) ==
  IF f = "requirements.md" THEN {Overview, Requirements}
  ELSE IF f = "plan.md" THEN {ImplementationPhases}
  ELSE {TasksSection}

\* some line of d starts with "###", white space, "T" and three digits
HasTaskLine(d) ==
  \E p \in 1..Len(d) :
    /\ AtBol(d, p)
    /\ LitAt(d, p, <<"#", "#", "#">>)
    /\ \E q \in (p + 4)..Len(d) :
         /\ \A k \in (p + 3)..(q - 1) : d[k] \in Whitespace
         /\ LitAt(d, q, <<"T">>)
         /\ q + 3 <= Len(d)
         /\ \A k \in (q + 1)..(q + 3) : d[k] \in Digits

\* the rules a directory violates, as <<rule, file>>
ViolatedRules(dir) ==
  {<<"missing_file", f>> : f \in {g \in DOMAIN dir.files : dir.files[g].kind = "missing"}}
    \cup {<<"not_a_file", f>> : f \in {g \in DOMAIN dir.files : dir.files[g].kind = "dir"}}
    \cup {<<"missing_sections", f>> :
            f \in {g \in DOMAIN dir.files :
                     /\ IsFile(dir, g)
                     /\ \E sec \in RequiredSections(g) :
                          ~Contains(dir.files[g].text, sec)}}
    \cup {<<"no_task_heading", f>> :
            f \in {g \in {"tasks.md"} :
                     IsFile(dir, g) /\ ~HasTaskLine(dir.files[g].text)}}

\* C6: the failure reasons accumulate across rule categories: every rule the
\* directory violates has its reason in the list of errors.
C6_Accumulates ==
  (ValidatorRan /\ spec_dir.kind = "dir") =>
    \A v \in ViolatedRules(spec_dir) :
      \E i \in 1..Len(errors) : errors[i].rule = v[1] /\ errors[i].file = v[2]

\* the only violated rule is that requirements.md lacks "## Requirements"
OnlyRequirementsMissing ==
  /\ spec_dir.kind = "dir"
  /\ ViolatedRules(spec_dir) = {<<"missing_sections", "requirements.md">>}
  /\ Contains(spec_dir.files["requirements.md"].text, Overview)

AlignmentRan == Len(argv) = 1 /\ argv[1] = "validate_skill_alignment.py"

Compared == AlignmentRan /\ skills.validator_exists /\ skills.template_exists

Expected(c) ==
  IF c = "requirements" THEN ToSet(skills.expectations.requirements_sections)
  ELSE ToSet(skills.expectations.plan_sections)

Promised(c) ==
  IF c = "requirements" THEN ToSet(skills.promises.requirements_sections)
  ELSE ToSet(skills.promises.plan_sections)

IssuesOf(severity, c) ==
  {i \in 1..Len(issues) : issues[i].severity = severity /\ issues[i].component = c}

\* C8: for requirements and plan, every section expected and not promised is
\* named by an error of the category, every section promised and not
\* expected by a warning of the category, equal sets give no issue; expected
\* {"## Overview", "## Requirements"} against promised {"## Overview"} gives
\* one error naming "## Requirements" and no warning; the exit code is 1
\* exactly when some issue is an error.
C8_SectionAlignment ==
  /\ Compared =>
       \A c \in {"requirements", "plan"} :
         /\ \A sec \in Expected(c) \ Promised(c) :
              \E i \in IssuesOf("error", c) : sec \in issues[i].sections
         /\ \A sec \in Promised(c) \ Expected(c) :
              \E i \in IssuesOf("warning", c) : sec \in issues[i].sections
         /\ Expected(c) = Promised(c) =>
              IssuesOf("error", c) \cup IssuesOf("warning", c) = {}
  /\ (/\ Compared
      /\ Expected("requirements") = {"## Overview", "## Requirements"}
      /\ Promised("requirements") = {"## Overview"}) =>
       /\ Cardinality(IssuesOf("error", "requirements")) = 1
       /\ \A i \in IssuesOf("error", "requirements") :
            issues[i].sections = {"## Requirements"}
       /\ IssuesOf("warning", "requirements") = {}
       /\ exitCode = 1
  /\ AlignmentRan =>
       (exitCode = 1) <=> (\E i \in 1..Len(issues) : issues[i].severity = "error")
  /\ AlignmentRan => exitCode \in {0, 1}

\* C8 witness: the scenario of the claim, and a run with warnings only
C8_Witness ==
  /\ Compared
  /\ Expected("requirements") = {"## Overview", "## Requirements"}
  /\ Promised("requirements") = {"## Overview"}
  /\ Promised("plan") \ Expected("plan") # {}
  /\ exitCode = 1

====
